---- MODULE Spec2Model ----
(***************************************************************************)
(* Collision-boundary extraction of LevelService::init                     *)
(* (src/engine/prefabs/components.h): edge collection from the tile grid,  *)
(* the adjacency index, the loop walker that consumes the edge set, and    *)
(* the winding fix by loop_has_solid_on_right.                             *)
(*                                                                         *)
(* A grid corner (ldtk::IntPoint) is a pair <<x, y>>; an Edge is a pair    *)
(* <<a, b>> of corners.  std::unordered_set<Edge> is a set; its iteration  *)
(* order is unspecified, so *edges.begin() is any remaining edge and the   *)
(* neighbour list adj[v] is any permutation of v's neighbours.             *)
(*                                                                         *)
(* Spec runs init on every layer up to MaxW x MaxH with the guard of the   *)
(* code; SpecG does the same with the guard scaled down to SmallGuard, so  *)
(* that walks longer than the guard exist within the grid bounds; SpecA    *)
(* runs init on the 3x3 block; SpecCollect runs the edge collection alone. *)
(* SpecB runs init on the 3x3 annulus, with the iteration order of the set *)
(* drawn from a family of orders; SpecSolid is one call of is_solid;       *)
(* SpecP continues Spec with the creation of the static body and of one    *)
(* chain per loop for the one layer, and then the destructor.  SpecAdj     *)
(* runs the collection and the adjacency build alone, SpecEdge the set     *)
(* operations on one segment through make_edge, and SpecProbe one call of  *)
(* loop_has_solid_on_right on a single directed edge.                      *)
(***************************************************************************)
EXTENDS Integers, Sequences, FiniteSets, TLC

\* ------------------------------------------------------------------ bounds
\* Largest layer.getGridSize() of the general specifications.
MaxW == 2

MaxH == 2

\* Largest layer.getGridSize() of the edge-collection specification SpecCollect.
ScanW == 3

ScanH == 2

\* layer.getCellSize(), pixels per cell.
CellSize == 2

\* Vertex-count guard of the scaled-guard specification SpecG.
SmallGuard == 4

\* How far outside the grid the arguments of a separate is_solid call reach.
QMargin == 1

\* -------------------------------------------------------- program constants
\* poly.size() > 100000
Guard == 100000

\* float scale = 1.0f
Scale == 1

\* float meters_to_pixels = 30.0f
MetersToPixels == 30

\* IntGrid value names of the level; collision_names of the service.
Tags == {"air", "wall"}

collision_names == {"wall"}

VARIABLES
    size,     \* layer.getGridSize(): <<size.x, size.y>>
    tags,     \* layer.getIntGridVal(x, y).name for every cell <<x, y>>
    guard,    \* the vertex-count guard the walk compares poly.size() with
    pc,       \* position in init: collect, adj, select, walk, close, done
    edges,    \* std::unordered_set<Edge> edges
    edges0,   \* history: edges as it was right after edge collection
    adj,      \* std::unordered_map<IntPoint, std::vector<IntPoint>> adj
    loops,    \* std::vector<std::vector<IntPoint>> loops
    start,    \* walk locals
    cur,
    prev,
    poly,
    steps,    \* history: number of erase_edge calls so far
    nwalk,    \* history: number of iterations of the inner while so far
    arg,      \* is_solid called on its own: the arguments <<x, y>>
    ret,      \* ... its return value
    queried,  \* ... the cells it passed to layer.getIntGridVal
    ends,     \* set operations on one segment: its endpoints <<p, q>>
    world,    \* physics->world: the body ids for which b2Body_IsValid holds
    layer_body,    \* b2BodyId layer_body (0 before b2CreateBody)
    layer_bodies,  \* std::vector<b2BodyId> layer_bodies
    chains,   \* the b2CreateChain calls so far: <<body, points, materials>>
    it,       \* position of the range-for over loops / over layer_bodies
    destroyed \* history: the ids passed to b2DestroyBody, in order

\* the state of a separate is_solid call and of separate edge-set operations
aux == <<arg, ret, queried, ends>>

\* the state of the physics collaborator and of the body bookkeeping
phys == <<world, layer_body, layer_bodies, chains, it, destroyed>>

vars == <<size, tags, guard, pc, edges, edges0, adj, loops, start, cur, prev, poly, steps, nwalk, aux, phys>>

\* ----------------------------------------------------------------- helpers
Cells(sz) == (0 .. sz[1] - 1) \X (0 .. sz[2] - 1)

NoPoint == <<-1, -1>>

EmptyAdj == [v \in {} |-> <<>>]

Sgn(n) == IF n > 0 THEN 1 ELSE IF n < 0 THEN -1 ELSE 0

Reverse(s) == [i \in 1 .. Len(s) |-> s[Len(s) + 1 - i]]

RECURSIVE Perms(_)
Perms(S) ==
    IF S = {} THEN {<<>>}
    ELSE UNION {{<<x>> \o p : p \in Perms(S \ {x})} : x \in S}

\* ------------------------------------------------------------ make_edge
\* Mutant of make_edge: the endpoints are never swapped.
make_edgeNoSwap(p0, p1) == <<p0, p1>>

\* if (p1.x < p0.x || (p1.x == p0.x && p1.y < p0.y)) swap(p0, p1); return {p0, p1}
make_edge(p0, p1) ==
    IF p1[1] < p0[1] \/ (p1[1] = p0[1] /\ p1[2] < p0[2])
    THEN <<p1, p0>>
    ELSE <<p0, p1>>

\* ------------------------------------------------------------- is_solid
\* Mutant of is_solid: a cell outside the grid counts as solid.
is_solidOutside(tg, x, y, sz) ==
    IF x < 0 \/ y < 0 \/ x >= sz[1] \/ y >= sz[2]
    THEN TRUE
    ELSE tg[<<x, y>>] \in collision_names

\* Mutant of is_solid: every cell inside the grid counts as solid.
is_solidInRange(tg, x, y, sz) ==
    IF x < 0 \/ y < 0 \/ x >= sz[1] \/ y >= sz[2]
    THEN FALSE
    ELSE TRUE

is_solid(tg, x, y, sz) ==
    IF x < 0 \/ y < 0 \/ x >= sz[1] \/ y >= sz[2]
    THEN FALSE
    ELSE tg[<<x, y>>] \in collision_names

\* The cells is_solid passes to layer.getIntGridVal: none when it returns at
\* the range test.
is_solid_reads(x, y, sz) ==
    IF x < 0 \/ y < 0 \/ x >= sz[1] \/ y >= sz[2]
    THEN {}
    ELSE {<<x, y>>}

\* ------------------------------------------------------ edge collection
\* Mutant of CellEdges: the lower side is inserted at row y instead of y + 1.
CellEdgesLowerAtY(tg, x, y, sz) ==
    IF ~is_solid(tg, x, y, sz) THEN {}
    ELSE (IF ~is_solid(tg, x, y - 1, sz)
            THEN {make_edge(<<x, y>>, <<x + 1, y>>)} ELSE {})
         \cup
         (IF ~is_solid(tg, x, y + 1, sz)
            THEN {make_edge(<<x, y>>, <<x + 1, y>>)} ELSE {})
         \cup
         (IF ~is_solid(tg, x - 1, y, sz)
            THEN {make_edge(<<x, y>>, <<x, y + 1>>)} ELSE {})
         \cup
         (IF ~is_solid(tg, x + 1, y, sz)
            THEN {make_edge(<<x + 1, y>>, <<x + 1, y + 1>>)} ELSE {})

\* The four inserts of one solid cell (up, down, left, right).
CellEdges(tg, x, y, sz) ==
    IF ~is_solid(tg, x, y, sz) THEN {}
    ELSE (IF ~is_solid(tg, x, y - 1, sz)
            THEN {make_edge(<<x, y>>, <<x + 1, y>>)} ELSE {})
         \cup
         (IF ~is_solid(tg, x, y + 1, sz)
            THEN {make_edge(<<x, y + 1>>, <<x + 1, y + 1>>)} ELSE {})
         \cup
         (IF ~is_solid(tg, x - 1, y, sz)
            THEN {make_edge(<<x, y>>, <<x, y + 1>>)} ELSE {})
         \cup
         (IF ~is_solid(tg, x + 1, y, sz)
            THEN {make_edge(<<x + 1, y>>, <<x + 1, y + 1>>)} ELSE {})

\* for y, for x: the inserts of every cell into the set.
CollectEdges(tg, sz) ==
    UNION {CellEdges(tg, c[1], c[2], sz) : c \in Cells(sz)}

\* ------------------------------------------------------ adjacency index
Endpoints(E) == {e[1] : e \in E} \cup {e[2] : e \in E}

Nbrs(v, E) == {e[2] : e \in {d \in E : d[1] = v}} \cup {e[1] : e \in {d \in E : d[2] = v}}

\* Mutant of AdjChoices: only adj[e.a].push_back(e.b) is done, so a corner
\* that is never the first endpoint of an edge gets no key.
AdjChoicesFirstOnly(V, E) ==
    LET W == {e[1] : e \in E}
    IN  {f \in [W -> UNION {Perms({e[2] : e \in {d \in E : d[1] = v}}) : v \in W}] :
            \A v \in W : f[v] \in Perms({e[2] : e \in {d \in E : d[1] = v}})}

\* for (auto& e : edges) { adj[e.a].push_back(e.b); adj[e.b].push_back(e.a); }
\* Every edge contributes each endpoint once to the other's list; the order of
\* a list follows the unspecified iteration order of the set.
RECURSIVE AdjChoices(_, _)
AdjChoices(V, E) ==
    IF V = {} THEN {EmptyAdj}
    ELSE LET v == CHOOSE w \in V : TRUE
         IN  {f @@ (v :> p) : f \in AdjChoices(V \ {v}, E), p \in Perms(Nbrs(v, E))}

\* ------------------------------------------------- loop_has_solid_on_right
\* Mutant of ProbeCell: the sample is taken along the left normal (ey, -ex).
ProbeCellLeft(a, b) ==
    LET ax == a[1] * CellSize * Scale
        ay == a[2] * CellSize * Scale
        bx == b[1] * CellSize * Scale
        by == b[2] * CellSize * Scale
        ex == Sgn(bx - ax)
        ey == Sgn(by - ay)
        mx4 == 2 * (ax + bx)
        my4 == 2 * (ay + by)
        eps4 == CellSize * Scale
        sx4 == mx4 + ey * eps4
        sy4 == my4 - ex * eps4
    IN  <<sx4 \div (4 * CellSize * Scale), sy4 \div (4 * CellSize * Scale)>>

\* Probe cell of the directed edge a -> b.  Pixel quantities are kept times 4:
\* the midpoint is 0.5 * (ax + bx) and eps is 0.25 * cell_size * scale.  The
\* unit direction (ex, ey) of an axis-aligned edge is the sign of its
\* components; for any other direction the floor below is the same with the
\* sign in place of the normalised component.
ProbeCell(a, b) ==
    LET ax == a[1] * CellSize * Scale
        ay == a[2] * CellSize * Scale
        bx == b[1] * CellSize * Scale
        by == b[2] * CellSize * Scale
        ex == Sgn(bx - ax)
        ey == Sgn(by - ay)
        rx == -ey
        ry == ex
        mx4 == 2 * (ax + bx)
        my4 == 2 * (ay + by)
        eps4 == CellSize * Scale
        sx4 == mx4 + rx * eps4
        sy4 == my4 + ry * eps4
    IN  <<sx4 \div (4 * CellSize * Scale), sy4 \div (4 * CellSize * Scale)>>

At(loop, i) == loop[((i - 1) % Len(loop)) + 1]

\* The first edge of non-zero length decides; false when there is none.  A
\* non-zero edge is at least CellSize * Scale >= 1 pixels long, so the test
\* len < 1e-4f skips nothing.
loop_has_solid_on_right(loop, tg, sz) ==
    LET nz == {i \in 1 .. Len(loop) : At(loop, i) # At(loop, i + 1)}
    IN  IF nz = {} THEN FALSE
        ELSE LET i == CHOOSE k \in nz : \A m \in nz : k <= m
                 g == ProbeCell(At(loop, i), At(loop, i + 1))
             IN  is_solid(tg, g[1], g[2], sz)

\* ------------------------------------------------------------- the walk
\* Mutant of CandIdx: the scan does not look the edge up in the set.
CandIdxAnyEdge(nbs, c, p, E) ==
    {i \in 1 .. Len(nbs) : nbs[i] # p}

\* Positions in nbs of the candidates the scan accepts.
CandIdx(nbs, c, p, E) ==
    {i \in 1 .. Len(nbs) : nbs[i] # p /\ make_edge(c, nbs[i]) \in E}

\* Mutant of FirstIdx: the scan keeps the last candidate instead of the first.
LastIdx(S) == CHOOSE k \in S : \A m \in S : k >= m

FirstIdx(S) == CHOOSE k \in S : \A m \in S : k <= m

\* Mutant of Trim: the closing vertex is kept.
TrimKeep(p) == p

\* poly after "if (!poly.empty() && poly.back() == poly.front()) poly.pop_back()"
Trim(p) ==
    IF Len(p) > 0 /\ p[Len(p)] = p[1] THEN SubSeq(p, 1, Len(p) - 1) ELSE p

\* Mutant of Resolve: the chain is stored as walked, never reversed.
ResolveKeep(p, tg, sz) == p

\* the loop as stored: reversed when the probe of its first edge is not solid
Resolve(p, tg, sz) ==
    IF ~loop_has_solid_on_right(p, tg, sz) THEN Reverse(p) ELSE p

\* ---------------------------------------------------------------- actions
InitGrid ==
    /\ size \in (0 .. MaxW) \X (0 .. MaxH)
    /\ tags \in [Cells(size) -> Tags]

InitRest ==
    /\ pc = "collect"
    /\ edges = {}
    /\ edges0 = {}
    /\ adj = EmptyAdj
    /\ loops = <<>>
    /\ start = NoPoint
    /\ cur = NoPoint
    /\ prev = NoPoint
    /\ poly = <<>>
    /\ steps = 0
    /\ nwalk = 0
    /\ arg = NoPoint
    /\ ret = FALSE
    /\ queried = {}
    /\ ends = <<NoPoint, NoPoint>>
    /\ world = {}
    /\ layer_body = 0
    /\ layer_bodies = <<>>
    /\ chains = <<>>
    /\ it = 0
    /\ destroyed = <<>>

Init == InitGrid /\ guard = Guard /\ InitRest

\* The same with the guard scaled down to SmallGuard, so that walks reach it.
InitG == InitGrid /\ guard = SmallGuard /\ InitRest

InitC ==
    /\ size \in (0 .. ScanW) \X (0 .. ScanH)
    /\ tags \in [Cells(size) -> Tags]
    /\ guard = Guard
    /\ InitRest

\* Scenario A: a 3x3 block of solid cells, nothing else.
InitA ==
    /\ size = <<3, 3>>
    /\ tags = [c \in Cells(size) |-> "wall"]
    /\ guard = Guard
    /\ InitRest

\* lines 1938-1957
Collect ==
    /\ pc = "collect"
    /\ edges' = CollectEdges(tags, size)
    /\ edges0' = edges'
    /\ pc' = "adj"
    /\ UNCHANGED <<size, tags, guard, adj, loops, start, cur, prev, poly, steps, nwalk, aux, phys>>

\* lines 1959-1966
BuildAdj ==
    /\ pc = "adj"
    /\ adj' \in AdjChoices(Endpoints(edges), edges)
    /\ pc' = "select"
    /\ UNCHANGED <<size, tags, guard, edges, edges0, loops, start, cur, prev, poly, steps, nwalk, aux, phys>>

\* Mutant of Select: the chain starts at the greater endpoint of the edge.
SelectFromB ==
    /\ pc = "select"
    /\ edges # {}
    /\ \E startE \in edges :
        /\ start' = startE[2]
        /\ cur' = startE[1]
        /\ prev' = startE[2]
        /\ poly' = <<startE[2], startE[1]>>
        /\ edges' = edges \ {make_edge(startE[1], startE[2])}
    /\ steps' = steps + 1
    /\ pc' = IF cur' = start' THEN "close" ELSE "walk"
    /\ UNCHANGED <<size, tags, guard, edges0, adj, loops, nwalk, aux, phys>>

\* lines 1974-1985: while (!edges.empty()) { startE = *edges.begin(); ... }
Select ==
    /\ pc = "select"
    /\ edges # {}
    /\ \E startE \in edges :
        /\ start' = startE[1]
        /\ cur' = startE[2]
        /\ prev' = startE[1]
        /\ poly' = <<startE[1], startE[2]>>
        /\ edges' = edges \ {make_edge(startE[1], startE[2])}
    /\ steps' = steps + 1
    /\ pc' = IF cur' = start' THEN "close" ELSE "walk"
    /\ UNCHANGED <<size, tags, guard, edges0, adj, loops, nwalk, aux, phys>>

\* lines 1987-2020: one iteration of while (!(cur == start))
Walk ==
    /\ pc = "walk"
    /\ LET nbs == IF cur \in DOMAIN adj THEN adj[cur] ELSE <<>>
           cands == CandIdx(nbs, cur, prev, edges)
       IN  /\ adj' = IF cur \in DOMAIN adj THEN adj ELSE adj @@ (cur :> <<>>)
           /\ IF cands = {}
              THEN /\ pc' = "close"
                   /\ UNCHANGED <<edges, cur, prev, poly, steps>>
              ELSE LET next == nbs[FirstIdx(cands)]
                   IN  /\ prev' = cur
                       /\ cur' = next
                       /\ poly' = Append(poly, next)
                       /\ edges' = edges \ {make_edge(cur, next)}
                       /\ steps' = steps + 1
                       /\ pc' = IF Len(poly') > guard \/ next = start
                                THEN "close" ELSE "walk"
    /\ nwalk' = nwalk + 1
    /\ UNCHANGED <<size, tags, guard, edges0, loops, start, aux, phys>>

\* lines 2022-2067: trim, keep valid chains, fix the winding, push
Close ==
    /\ pc = "close"
    /\ LET p == Trim(poly)
       IN  loops' = IF Len(p) >= 3 THEN Append(loops, Resolve(p, tags, size)) ELSE loops
    /\ pc' = "select"
    /\ UNCHANGED <<size, tags, guard, edges, edges0, adj, start, cur, prev, poly, steps, nwalk, aux, phys>>

\* the outer while exits
Finish ==
    /\ pc = "select"
    /\ edges = {}
    /\ pc' = "done"
    /\ UNCHANGED <<size, tags, guard, edges, edges0, adj, loops, start, cur, prev, poly, steps, nwalk, aux, phys>>

Next == Collect \/ BuildAdj \/ Select \/ Walk \/ Close \/ Finish

Spec == Init /\ [][Next]_vars

SpecG == InitG /\ [][Next]_vars

SpecA == InitA /\ [][Next]_vars

\* Edge collection alone, on larger grids.
SpecCollect == InitC /\ [][Collect]_vars

TypeOK ==
    /\ pc \in {"collect", "adj", "select", "walk", "close", "done",
              "chains", "returned", "dtor", "gone", "is_solid", "is_solid_ret",
              "edge_ops", "edge_inserted", "edge_found", "edge_erased",
              "probe", "probe_ret"}
    /\ edges \subseteq edges0
    /\ steps = Cardinality(edges0) - Cardinality(edges)
    /\ nwalk <= steps

\* ------------------------------------------------------- claim vocabulary
\* The canonical undirected segments between consecutive vertices of a
\* stored loop, the pair (last vertex, first vertex) included.
LoopPairs(l) == {make_edge(At(l, i), At(l, i + 1)) : i \in 1 .. Len(l)}

LoopSet == {loops[i] : i \in 1 .. Len(loops)}

Solid(c) == c \in Cells(size) /\ tags[c] = "wall"

\* Unit cell sides of the grid, smaller corner first, with the two cells each
\* one separates.
HSides == {<<c, <<c[1] + 1, c[2]>>>> : c \in (0 .. size[1] - 1) \X (0 .. size[2])}

VSides == {<<c, <<c[1], c[2] + 1>>>> : c \in (0 .. size[1]) \X (0 .. size[2] - 1)}

SideCells(s) ==
    IF s[1][2] = s[2][2]
    THEN {<<s[1][1], s[1][2] - 1>>, <<s[1][1], s[1][2]>>}
    ELSE {<<s[1][1] - 1, s[1][2]>>, <<s[1][1], s[1][2]>>}

BoundarySides ==
    {s \in HSides \cup VSides : Cardinality({c \in SideCells(s) : Solid(c)}) = 1}

Offsets == {<<0, -1>>, <<0, 1>>, <<-1, 0>>, <<1, 0>>}

OpenSidePairs ==
    {cs \in Cells(size) \X Offsets :
        Solid(cs[1]) /\ ~Solid(<<cs[1][1] + cs[2][1], cs[1][2] + cs[2][2]>>)}

Open(p) == Len(p) > 0 /\ p[Len(p)] # p[1]

\* ------------------------------------------------------------------ claims
\* C1: every loop pushed to loops is closed over the original edge set: the
\* canonical edge between each pair of consecutive vertices, the pair (last,
\* first) included, is a member of the EdgeSet as it was after collection.
C1_Closure == \A l \in LoopSet : LoopPairs(l) \subseteq edges0

\* C2: every edge is erased at most once, no undirected edge is in two stored
\* loops, and none occurs twice among the consecutive pairs of one loop.
C2_EdgeOnce ==
    /\ steps = Cardinality(edges0 \ edges)
    /\ \A i, j \in 1 .. Len(loops) :
         i # j => LoopPairs(loops[i]) \cap LoopPairs(loops[j]) \cap edges0 = {}
    /\ \A l \in LoopSet : \A e \in edges0 :
         Cardinality({i \in 1 .. Len(l) : make_edge(At(l, i), At(l, i + 1)) = e}) <= 1

\* Variant of init: a natural number that every step lowers.
Rank ==
    CASE pc = "collect" -> 12 * Cardinality(Cells(size)) + 5
      [] pc = "adj"     -> 3 * Cardinality(edges) + 4
      [] pc = "walk"    -> 3 * Cardinality(edges) + 3
      [] pc = "close"   -> 3 * Cardinality(edges) + 2
      [] pc = "select"  -> 3 * Cardinality(edges) + 1
      [] OTHER          -> 0

\* C3: the extraction of a layer terminates: every step lowers the variant
\* (so only finitely many Selecting and Walking steps happen), there is at
\* most one Walking step per edge of the original EdgeSet in total, and the
\* EdgeSet is empty when the outer loop has exited.
C3_Terminates ==
    [][/\ Rank' < Rank
       /\ Rank' >= 0
       /\ nwalk' <= Cardinality(edges0')
       /\ (pc' = "done" => edges' = {})]_vars

C3_Witness == pc = "done" /\ Cardinality(edges0) = 8 /\ nwalk = 6

\* C4: after collection the EdgeSet is exactly the set of unit cell sides with
\* one solid and one non-solid (or out-of-range) cell, and it has as many
\* members as there are (solid cell, side) pairs with a non-solid neighbour.
C4_EdgeSet ==
    pc # "collect" =>
        /\ edges0 = BoundarySides
        /\ Cardinality(edges0) = Cardinality(OpenSidePairs)

C4_Witness == pc = "adj" /\ size = <<3, 2>> /\ Cardinality(edges0) = 12 /\ edges = edges0

IsUnit(a, b) ==
    \/ (a[2] = b[2] /\ (b[1] - a[1] = 1 \/ a[1] - b[1] = 1))
    \/ (a[1] = b[1] /\ (b[2] - a[2] = 1 \/ a[2] - b[2] = 1))

\* The cell on the right of travel of the unit edge a -> b (y grows downwards).
RightCell(a, b) ==
    IF b[1] > a[1] THEN <<a[1], a[2]>>
    ELSE IF b[1] < a[1] THEN <<b[1], a[2] - 1>>
    ELSE IF b[2] > a[2] THEN <<a[1] - 1, a[2]>>
    ELSE <<a[1], b[2]>>

RightSolid(a, b) == IsUnit(a, b) /\ Solid(RightCell(a, b))

Simple(l) == Cardinality({l[i] : i \in 1 .. Len(l)}) = Len(l)

C6_Idempotent == \A l \in LoopSet : loop_has_solid_on_right(l, tags, size)

\* C7: a walk that stops at a vertex without a remaining candidate before it
\* is back at start leaves the loops list as it was.
C7_AbandonedDiscarded ==
    [][(pc = "close" /\ Open(poly) /\ Len(poly) <= guard) => loops' = loops]_vars

\* C8: a walk that stops because the chain exceeds the vertex-count guard
\* before it is back at start leaves the loops list as it was.
C8_GuardDiscarded ==
    [][(pc = "close" /\ Open(poly) /\ Len(poly) > guard) => loops' = loops]_vars

\* ------------------------------------------------------ the reference run
\* The run of init in which the set iterates in lexicographic order: begin()
\* is the least remaining edge and every neighbour list is ascending.
Less(p, q) == p[1] < q[1] \/ (p[1] = q[1] /\ p[2] < q[2])

LeastPoint(S) == CHOOSE p \in S : \A q \in S : p = q \/ Less(p, q)

LeastEdge(E) ==
    CHOOSE e \in E : \A d \in E :
        e = d \/ Less(e[1], d[1]) \/ (e[1] = d[1] /\ Less(e[2], d[2]))

RECURSIVE Ascending(_)
Ascending(S) ==
    IF S = {} THEN <<>>
    ELSE LET p == LeastPoint(S) IN <<p>> \o Ascending(S \ {p})

RefAdj(E) == [v \in Endpoints(E) |-> Ascending(Nbrs(v, E))]

\* The inner while from (st, pv, cu, pl): the edges left and the chain.
RECURSIVE RefWalk(_, _, _, _, _, _)
RefWalk(E, A, st, pv, cu, pl) ==
    IF cu = st THEN <<E, pl>>
    ELSE LET nbs == A[cu]
             cands == CandIdx(nbs, cu, pv, E)
         IN  IF cands = {} THEN <<E, pl>>
             ELSE LET next == nbs[FirstIdx(cands)]
                      E2 == E \ {make_edge(cu, next)}
                      pl2 == Append(pl, next)
                  IN  IF Len(pl2) > guard THEN <<E2, pl2>>
                      ELSE RefWalk(E2, A, st, cu, next, pl2)

RECURSIVE RefLoops(_, _, _)
RefLoops(E, A, acc) ==
    IF E = {} THEN acc
    ELSE LET e == LeastEdge(E)
             r == RefWalk(E \ {e}, A, e[1], e[1], e[2], <<e[1], e[2]>>)
             p == Trim(r[2])
         IN  RefLoops(r[1], A,
                 IF Len(p) >= 3 THEN Append(acc, Resolve(p, tags, size)) ELSE acc)

\* The loops of a run as a partition of undirected segments.
Partition(ls) == {LoopPairs(ls[i]) : i \in 1 .. Len(ls)}

\* C9: the result does not depend on the edge picked in Selecting nor on the
\* neighbour orders: every run emits the same undirected segments, split into
\* loops the same way, as the run that iterates in lexicographic order.
C9_Deterministic ==
    pc = "done" => Partition(loops) = Partition(RefLoops(edges0, RefAdj(edges0), <<>>))

Perimeter3 == {c \in (0 .. 3) \X (0 .. 3) : c[1] \in {0, 3} \/ c[2] \in {0, 3}}

\* C10 as claimed: the 3x3 block yields one loop of exactly the 4 vertices
\* (0,0), (3,0), (3,3), (0,3).
C10_ScenarioA_FourVertices ==
    pc = "done" =>
        /\ Len(loops) = 1
        /\ Len(loops[1]) = 4
        /\ {loops[1][i] : i \in 1 .. 4} = {<<0, 0>>, <<3, 0>>, <<3, 3>>, <<0, 3>>}

\* C10 as amended: the 3x3 block yields one closed loop of exactly 12
\* vertices, one per unit boundary edge: all the grid corners on the outline
\* of the block, the corners (0,0), (3,0), (3,3), (0,3) among them.
C10_ScenarioA_Outline ==
    pc = "done" =>
        /\ Len(loops) = 1
        /\ Len(loops[1]) = 12
        /\ {loops[1][i] : i \in 1 .. Len(loops[1])} = Perimeter3
        /\ LoopPairs(loops[1]) = edges0

C10_Witness == pc = "done" /\ size = <<3, 3>> /\ Len(loops) = 1 /\ Cardinality(edges0) = 12

\* ------------------------------------------------- Scenario B (the annulus)
\* Row-major order of corners (y first), the order of the collection scan.
LessYX(p, q) == p[2] < q[2] \/ (p[2] = q[2] /\ p[1] < q[1])

LeastEdgeYX(E) ==
    CHOOSE e \in E : \A d \in E :
        e = d \/ LessYX(e[1], d[1]) \/ (e[1] = d[1] /\ LessYX(e[2], d[2]))

RECURSIVE AscendingEdges(_)
AscendingEdges(E) ==
    IF E = {} THEN <<>>
    ELSE LET e == LeastEdge(E) IN <<e>> \o AscendingEdges(E \ {e})

RECURSIVE AscendingEdgesYX(_)
AscendingEdgesYX(E) ==
    IF E = {} THEN <<>>
    ELSE LET e == LeastEdgeYX(E) IN <<e>> \o AscendingEdgesYX(E \ {e})

Rotations(s) ==
    IF s = <<>> THEN {<<>>}
    ELSE {SubSeq(s, k, Len(s)) \o SubSeq(s, 1, k - 1) : k \in 1 .. Len(s)}

\* Iteration orders of the set that the annulus specification draws from: the
\* two sorted orders, each rotated to every starting element, forwards and
\* backwards.
IterOrders(E) ==
    LET base == Rotations(AscendingEdges(E)) \cup Rotations(AscendingEdgesYX(E))
    IN  base \cup {Reverse(o) : o \in base}

\* Mutant of AdjOfOrder: the second push records e.b in its own list.
AdjOfOrderSelf(ord) ==
    [v \in Endpoints({ord[i] : i \in 1 .. Len(ord)}) |->
        LET at == SelectSeq(ord, LAMBDA e : e[1] = v \/ e[2] = v)
        IN  [i \in 1 .. Len(at) |-> at[i][2]]]

\* for (auto& e : edges) { adj[e.a].push_back(e.b); adj[e.b].push_back(e.a); }
\* with the set iterating in the order ord: the list of v holds the other
\* endpoint of every edge at v, in the order the edges come.
AdjOfOrder(ord) ==
    [v \in Endpoints({ord[i] : i \in 1 .. Len(ord)}) |->
        LET at == SelectSeq(ord, LAMBDA e : e[1] = v \/ e[2] = v)
        IN  [i \in 1 .. Len(at) |-> IF at[i][1] = v THEN at[i][2] ELSE at[i][1]]]

\* A 3x3 block of solid cells whose centre cell is empty.
InitB ==
    /\ size = <<3, 3>>
    /\ tags = [c \in Cells(size) |-> IF c = <<1, 1>> THEN "air" ELSE "wall"]
    /\ guard = Guard
    /\ InitRest

\* lines 1959-1966, the iteration order drawn from IterOrders
BuildAdjOrdered ==
    /\ pc = "adj"
    /\ \E ord \in IterOrders(edges) : adj' = AdjOfOrder(ord)
    /\ pc' = "select"
    /\ UNCHANGED <<size, tags, guard, edges, edges0, loops, start, cur, prev, poly, steps, nwalk, aux, phys>>

NextB == Collect \/ BuildAdjOrdered \/ Select \/ Walk \/ Close \/ Finish

SpecB == InitB /\ [][NextB]_vars

\* Twice the signed area of the polygon l (shoelace sum), y growing downwards:
\* positive when the interior is on the right of travel.
RECURSIVE Shoelace(_, _)
Shoelace(l, i) ==
    IF i = 0 THEN 0
    ELSE At(l, i)[1] * At(l, i + 1)[2] - At(l, i + 1)[1] * At(l, i)[2]
         + Shoelace(l, i - 1)

Area2(l) == Shoelace(l, Len(l))

VertexSet(l) == {l[i] : i \in 1 .. Len(l)}

HoleCorners == {<<1, 1>>, <<2, 1>>, <<2, 2>>, <<1, 2>>}

\* C11 as claimed: the annulus yields two loops of 4 vertices each, the outer
\* and the inner rectangle, of opposite rotation.
C11_ScenarioB_FourFour ==
    pc = "done" =>
        /\ Len(loops) = 2
        /\ \A i \in 1 .. 2 : Len(loops[i]) = 4
        /\ \E i \in 1 .. 2 : VertexSet(loops[i]) = {<<0, 0>>, <<3, 0>>, <<3, 3>>, <<0, 3>>}
        /\ \E i \in 1 .. 2 : VertexSet(loops[i]) = HoleCorners
        /\ Area2(loops[1]) * Area2(loops[2]) < 0

\* C11 as amended: the annulus yields exactly two closed loops, the outer one
\* of the 12 corners on the outline of the block and the inner one of the 4
\* corners of the centre cell, and the two have opposite rotation: solid is on
\* the right of both, so the outer encloses +9 cells and the inner -1.
C11_ScenarioB_Outlines ==
    pc = "done" =>
        /\ Len(loops) = 2
        /\ \E i, j \in 1 .. 2 :
            /\ i # j
            /\ Len(loops[i]) = 12
            /\ VertexSet(loops[i]) = Perimeter3
            /\ Area2(loops[i]) = 18
            /\ Len(loops[j]) = 4
            /\ VertexSet(loops[j]) = HoleCorners
            /\ Area2(loops[j]) = -2
        /\ LoopPairs(loops[1]) \cup LoopPairs(loops[2]) = edges0
        /\ LoopPairs(loops[1]) \cap LoopPairs(loops[2]) = {}

C11_Witness ==
    /\ pc = "done"
    /\ tags[<<1, 1>>] = "air"
    /\ Cardinality(edges0) = 16
    /\ Len(loops) = 2
    /\ Len(loops[1]) = 4

\* ---------------------------------------------------- Scenario D (the pinch)
\* The layer has exactly two solid cells, and they touch only diagonally.
TwoDiagonalCells ==
    /\ Cardinality({c \in Cells(size) : Solid(c)}) = 2
    /\ \E c, d \in Cells(size) :
        /\ Solid(c) /\ Solid(d)
        /\ d[2] = c[2] + 1
        /\ (d[1] = c[1] + 1 \/ d[1] = c[1] - 1)

CellCorners(c) ==
    {c, <<c[1] + 1, c[2]>>, <<c[1] + 1, c[2] + 1>>, <<c[1], c[2] + 1>>}

\* C12: on a layer of two solid cells that touch only diagonally the extraction
\* ends with exactly two closed loops of 4 vertices each, one around each cell,
\* whatever starting edges are picked and however the neighbours are listed.
C12_ScenarioD ==
    (pc = "done" /\ TwoDiagonalCells) =>
        /\ Len(loops) = 2
        /\ \A i \in 1 .. Len(loops) :
            /\ Len(loops[i]) = 4
            /\ LoopPairs(loops[i]) \subseteq edges0
        /\ {VertexSet(loops[i]) : i \in 1 .. Len(loops)}
             = {CellCorners(c) : c \in {d \in Cells(size) : Solid(d)}}

\* ------------------------------------------------ Scenario C (empty grid)
NoSolidCell == \A c \in Cells(size) : tags[c] \notin collision_names

\* C13: on a layer without a solid cell, of any width and height (0 included),
\* the EdgeSet is empty after collection, the body of the walk loop is never
\* entered (no start edge is taken, no walking step happens, no chain is
\* closed) and no loop is emitted.
C13_ScenarioC ==
    NoSolidCell =>
        /\ edges = {}
        /\ edges0 = {}
        /\ pc \notin {"walk", "close"}
        /\ steps = 0
        /\ nwalk = 0
        /\ poly = <<>>
        /\ loops = <<>>

C13_Witness ==
    /\ pc = "done"
    /\ size = <<2, 2>>
    /\ NoSolidCell
    /\ edges0 = {}
    /\ loops = <<>>

\* C14: stored loops are not simplified: consecutive vertices of a stored loop,
\* the last and the first included, are one grid unit apart along one axis,
\* and the loop has as many vertices as it has boundary edges.
C14_NotSimplified ==
    \A l \in LoopSet :
        /\ \A i \in 1 .. Len(l) : IsUnit(At(l, i), At(l, i + 1))
        /\ Len(l) = Cardinality(LoopPairs(l))

\* C15: every loop in the loops list has at least 3 vertices and its last
\* vertex differs from its first one (the closing vertex equal to start is
\* dropped before the loop is stored), and closing a chain that has fewer
\* than 3 vertices after trimming stores nothing.
C15_AtLeastThree ==
    [][/\ \A i \in 1 .. Len(loops') :
            /\ Len(loops'[i]) >= 3
            /\ loops'[i][Len(loops'[i])] # loops'[i][1]
       /\ (pc = "close" /\ Len(Trim(poly)) < 3) => loops' = loops]_vars

\* A closed 4-vertex loop is stored and a 2-vertex chain has just been dropped.
C15_Witness ==
    /\ pc = "select"
    /\ Len(poly) = 2
    /\ Len(loops) >= 1
    /\ \E i \in 1 .. Len(loops) : Len(loops[i]) = 4 /\ LoopPairs(loops[i]) \subseteq edges0

\* ----------------------------------------------------- is_solid on its own
\* One call of is_solid(layer, x, y, size) on any layer up to MaxW x MaxH, with
\* x and y from QMargin cells before the grid to QMargin cells after it.
InitS ==
    /\ InitGrid
    /\ guard = Guard
    /\ pc = "is_solid"
    /\ arg \in (-QMargin .. MaxW + QMargin) \X (-QMargin .. MaxH + QMargin)
    /\ ret = FALSE
    /\ queried = {}
    /\ ends = <<NoPoint, NoPoint>>
    /\ edges = {} /\ edges0 = {} /\ adj = EmptyAdj /\ loops = <<>>
    /\ start = NoPoint /\ cur = NoPoint /\ prev = NoPoint /\ poly = <<>>
    /\ steps = 0 /\ nwalk = 0
    /\ world = {} /\ layer_body = 0 /\ layer_bodies = <<>> /\ chains = <<>>
    /\ it = 0 /\ destroyed = <<>>

\* lines 2184-2197
IsSolidCall ==
    /\ pc = "is_solid"
    /\ ret' = is_solid(tags, arg[1], arg[2], size)
    /\ queried' = queried \cup is_solid_reads(arg[1], arg[2], size)
    /\ pc' = "is_solid_ret"
    /\ UNCHANGED <<size, tags, guard, edges, edges0, adj, loops, start, cur, prev, poly, steps, nwalk, arg, ends, phys>>

SpecSolid == InitS /\ [][IsSolidCall]_vars

InRange(p) == 0 <= p[1] /\ p[1] < size[1] /\ 0 <= p[2] /\ p[2] < size[2]

\* C16: is_solid(layer, x, y, size) returns true exactly when (x, y) is inside
\* the grid and the tag name of the cell is a member of collision_names; for
\* (x, y) outside the grid, negative coordinates and x = size.x or y = size.y
\* included, it returns false and has not queried the layer.
C16_IsSolid ==
    pc = "is_solid_ret" =>
        /\ ret = (InRange(arg) /\ tags[arg] \in collision_names)
        /\ ~InRange(arg) => (ret = FALSE /\ queried = {})
        /\ InRange(arg) => queried = {arg}

C16_Witness ==
    /\ pc = "is_solid_ret"
    /\ size = <<2, 2>>
    /\ arg = <<2, 0>>
    /\ tags[<<1, 0>>] = "wall"
    /\ ret = FALSE
    /\ queried = {}

\* ------------------------------------------- body and chain creation, teardown
Range(s) == {s[i] : i \in 1 .. Len(s)}

\* Mutant of PixelVerts: the vertices are taken in reverse order.
PixelVertsReversed(loop) ==
    [i \in 1 .. Len(loop) |->
        <<loop[Len(loop) + 1 - i][1] * CellSize * Scale,
          loop[Len(loop) + 1 - i][2] * CellSize * Scale>>]

\* verts of one loop before convert_to_meters: grid corners in pixels.
PixelVerts(loop) ==
    [i \in 1 .. Len(loop) |->
        <<loop[i][1] * CellSize * Scale, loop[i][2] * CellSize * Scale>>]

\* physics->convert_to_meters({xpx, ypx}): both coordinates times
\* pixels_to_meters = 1 / meters_to_pixels; a length in meters is kept as the
\* fraction <<pixels, meters_to_pixels>>.
convert_to_meters(px) == <<<<px[1], MetersToPixels>>, <<px[2], MetersToPixels>>>>

\* cd.points of the chain of one loop
ChainPoints(loop) ==
    LET verts == PixelVerts(loop)
    IN  [i \in 1 .. Len(verts) |-> convert_to_meters(verts[i])]

\* cd.materials: one entry per element of verts, friction and restitution
\* 0.1f each, kept in tenths.
ChainMaterials(points) == [i \in 1 .. Len(points) |-> <<1, 1>>]

\* lines 2070-2074: b2CreateBody returns the id of a new valid body.
CreateBody ==
    /\ pc = "done"
    /\ layer_body' = Cardinality(world) + Len(destroyed) + 1
    /\ world' = world \cup {layer_body'}
    /\ it' = 0
    /\ pc' = "chains"
    /\ UNCHANGED <<size, tags, guard, edges, edges0, adj, loops, start, cur, prev, poly, steps, nwalk, aux, layer_bodies, chains, destroyed>>

\* lines 2076-2106: one iteration of for (auto& loop : loops)
CreateChain ==
    /\ pc = "chains"
    /\ it < Len(loops)
    /\ LET points == ChainPoints(loops[it + 1])
       IN  chains' = Append(chains, <<layer_body, points, ChainMaterials(points)>>)
    /\ layer_bodies' = Append(layer_bodies, layer_body)
    /\ it' = it + 1
    /\ UNCHANGED <<size, tags, guard, pc, edges, edges0, adj, loops, start, cur, prev, poly, steps, nwalk, aux, world, layer_body, destroyed>>

\* the range-for is over and init returns
Return ==
    /\ pc = "chains"
    /\ it = Len(loops)
    /\ pc' = "returned"
    /\ UNCHANGED <<size, tags, guard, edges, edges0, adj, loops, start, cur, prev, poly, steps, nwalk, aux, phys>>

\* lines 1835-1841: the destructor starts
Destruct ==
    /\ pc = "returned"
    /\ it' = 0
    /\ pc' = "dtor"
    /\ UNCHANGED <<size, tags, guard, edges, edges0, adj, loops, start, cur, prev, poly, steps, nwalk, aux, world, layer_body, layer_bodies, chains, destroyed>>

\* Mutant of DestroyNext: b2DestroyBody is called without the validity test.
DestroyNextUnchecked ==
    /\ pc = "dtor"
    /\ it < Len(layer_bodies)
    /\ world' = world \ {layer_bodies[it + 1]}
    /\ destroyed' = Append(destroyed, layer_bodies[it + 1])
    /\ it' = it + 1
    /\ UNCHANGED <<size, tags, guard, pc, edges, edges0, adj, loops, start, cur, prev, poly, steps, nwalk, aux, layer_body, layer_bodies, chains>>

\* lines 1842-1848: one iteration of for (auto& body : layer_bodies)
DestroyNext ==
    /\ pc = "dtor"
    /\ it < Len(layer_bodies)
    /\ LET body == layer_bodies[it + 1]
       IN  IF body \in world
           THEN /\ world' = world \ {body}
                /\ destroyed' = Append(destroyed, body)
           ELSE UNCHANGED <<world, destroyed>>
    /\ it' = it + 1
    /\ UNCHANGED <<size, tags, guard, pc, edges, edges0, adj, loops, start, cur, prev, poly, steps, nwalk, aux, layer_body, layer_bodies, chains>>

\* the destructor returns
Destructed ==
    /\ pc = "dtor"
    /\ it = Len(layer_bodies)
    /\ pc' = "gone"
    /\ UNCHANGED <<size, tags, guard, edges, edges0, adj, loops, start, cur, prev, poly, steps, nwalk, aux, phys>>

NextP ==
    Next \/ CreateBody \/ CreateChain \/ Return \/ Destruct \/ DestroyNext \/ Destructed

\* init on one tile layer to its return, then the destructor of the service.
SpecP == Init /\ [][NextP]_vars

\* C17: when init has returned, the handle of the static body it created for
\* the layer is in layer_bodies, also when the layer yielded no loop; so the
\* destructor leaves no body of this service in the world.
C17_BodyRetained ==
    /\ pc = "returned" => layer_body \in Range(layer_bodies)
    /\ pc = "gone" => world = {}

RECURSIVE SumLen(_, _)
SumLen(ls, n) == IF n = 0 THEN 0 ELSE Len(ls[n]) + SumLen(ls, n - 1)

\* The places (loop, position) where the undirected edge e is the pair of
\* consecutive vertices, the pair (last, first) included.
Occurrences(e) ==
    {ij \in (1 .. Len(loops)) \X (1 .. Cardinality(edges0)) :
        /\ ij[2] <= Len(loops[ij[1]])
        /\ make_edge(At(loops[ij[1]], ij[2]), At(loops[ij[1]], ij[2] + 1)) = e}

\* C19: with the guard out of reach the emitted loops cover the boundary
\* exactly: every edge of the original EdgeSet is a consecutive pair (with
\* wrap-around) at exactly one place of exactly one loop, no pair of a loop is
\* outside the EdgeSet, and the vertex counts of the loops add up to the size
\* of the EdgeSet.
C19_Cover ==
    pc = "done" =>
        /\ \A e \in edges0 : Cardinality(Occurrences(e)) = 1
        /\ \A l \in LoopSet : LoopPairs(l) \subseteq edges0 /\ Len(l) <= Cardinality(edges0)
        /\ SumLen(loops, Len(loops)) = Cardinality(edges0)

C19_Witness ==
    /\ pc = "done"
    /\ Cardinality(edges0) = 8
    /\ Len(loops) = 2
    /\ SumLen(loops, 2) = 8

\* The scan of adj[cur] accepts the vertex n: it is not prev and the edge
\* between cur and n is still in the set.
Accepts(n) == n # prev /\ make_edge(cur, n) \in edges

\* C20: a walking step that finds a candidate takes the first vertex of
\* adj[cur], in its recorded order, that is not prev and whose edge with cur
\* is still in the EdgeSet; it removes exactly that edge, appends exactly that
\* vertex to the chain, and sets prev to the old cur and cur to that vertex;
\* the other edges, the earlier vertices of the chain, start, the neighbour
\* lists and the stored loops stay as they are.
C20_WalkingStep ==
    [][(pc = "walk" /\ cur \in DOMAIN adj /\ \E n \in Range(adj[cur]) : Accepts(n)) =>
          /\ \E i \in 1 .. Len(adj[cur]) :
                /\ adj[cur][i] = cur'
                /\ Accepts(adj[cur][i])
                /\ \A j \in 1 .. i - 1 : ~Accepts(adj[cur][j])
          /\ make_edge(cur, cur') \in edges
          /\ edges' = edges \ {make_edge(cur, cur')}
          /\ Cardinality(edges') = Cardinality(edges) - 1
          /\ Len(poly') = Len(poly) + 1
          /\ SubSeq(poly', 1, Len(poly)) = poly
          /\ poly'[Len(poly')] = cur'
          /\ prev' = cur
          /\ start' = start
          /\ loops' = loops
          /\ adj' = adj]_vars

\* A walking step at a corner of degree 4 has just passed over the first
\* entry of the list, which is still a remaining edge but leads back to prev.
C20_Witness ==
    /\ pc = "walk"
    /\ Len(poly) = 3
    /\ Len(adj[poly[2]]) = 4
    /\ adj[poly[2]][1] = poly[1]
    /\ adj[poly[2]][2] = poly[3]
    /\ cur = poly[3]
    /\ prev = poly[2]
    /\ Cardinality(edges) = Cardinality(edges0) - 2

\* The walk of the chain in poly is over: nothing was walked yet, or cur is
\* back at start, or the scan at cur has no candidate, or the chain is longer
\* than the guard.
WalkOver ==
    \/ poly = <<>>
    \/ cur = start
    \/ Len(poly) > guard
    \/ \A n \in Range(IF cur \in DOMAIN adj THEN adj[cur] ELSE <<>>) : ~Accepts(n)

\* C21: a Selecting step on a non-empty EdgeSet picks one remaining canonical
\* edge (a, b), a the lexicographically smaller endpoint, removes exactly that
\* edge, and starts the chain as [a, b] with start = prev = a and cur = b,
\* leaving adj and the stored loops alone; and Selecting is entered only from
\* the adjacency build or from the closing of a chain whose walk is over.
C21_SelectingStep ==
    [][/\ (pc = "select" /\ edges # {}) =>
            \E e \in edges :
                /\ e = make_edge(e[1], e[2])
                /\ Less(e[1], e[2])
                /\ edges' = edges \ {e}
                /\ Cardinality(edges') = Cardinality(edges) - 1
                /\ poly' = <<e[1], e[2]>>
                /\ start' = e[1]
                /\ prev' = e[1]
                /\ cur' = e[2]
                /\ loops' = loops
                /\ adj' = adj
                /\ pc' = "walk"
       /\ (pc' = "select" /\ pc # "select") => (pc \in {"adj", "close"} /\ WalkOver')]_vars

\* The second chain of a layer has just been started, after a stored loop.
C21_Witness ==
    /\ pc = "walk"
    /\ Len(loops) = 1
    /\ Len(poly) = 2
    /\ start = poly[1]
    /\ prev = poly[1]
    /\ cur = poly[2]
    /\ Less(start, cur)
    /\ Cardinality(edges) = Cardinality(edges0) - Len(loops[1]) - 1

\* C22: the adjacency index is not changed after it is built: every Selecting,
\* Walking and closing step leaves the key set and the neighbour lists of adj
\* as they are, the keys being the endpoints of the original EdgeSet; the
\* lookup adj[cur] of a walking step finds its key, cur being such an endpoint.
C22_AdjFrozen ==
    [][(pc \in {"select", "walk", "close"}) =>
          (/\ adj' = adj
           /\ DOMAIN adj' = Endpoints(edges0)
           /\ (pc = "walk" => (cur \in Endpoints(edges0) /\ cur \in DOMAIN adj)))]_vars

C22_Witness ==
    /\ pc = "done"
    /\ nwalk >= 6
    /\ Cardinality(edges0) = 8
    /\ DOMAIN adj = Endpoints(edges0)
    /\ Cardinality(DOMAIN adj) = 7

\* ----------------------------------------------- the adjacency build alone
\* Edge collection and the adjacency build on every layer up to ScanW x ScanH,
\* the set iterating in one of the orders of IterOrders.
NextAdj == Collect \/ BuildAdjOrdered

SpecAdj == InitC /\ [][NextAdj]_vars

Corners == (0 .. size[1]) \X (0 .. size[2])

\* The corners joined to v by an undirected edge of the original EdgeSet.
Joined(v) == {w \in Corners : w # v /\ make_edge(v, w) \in edges0}

Count(s, x) == Cardinality({i \in 1 .. Len(s) : s[i] = x})

\* C23: after construction adj[v] holds, for every grid corner v, exactly the
\* corners w with the undirected edge (v, w) in the original EdgeSet, each
\* once, and a corner without an incident boundary edge is not a key of adj.
C23_AdjContent ==
    pc = "select" =>
        /\ DOMAIN adj \subseteq Corners
        /\ \A v \in Corners :
            IF Joined(v) = {}
            THEN v \notin DOMAIN adj
            ELSE /\ v \in DOMAIN adj
                 /\ Len(adj[v]) = Cardinality(Joined(v))
                 /\ \A w \in Corners :
                        Count(adj[v], w) = IF w \in Joined(v) THEN 1 ELSE 0

\* A layer with a pinch corner (four neighbours) and a corner without edges.
C23_Witness ==
    /\ pc = "select"
    /\ size = <<3, 2>>
    /\ \E v \in DOMAIN adj : Len(adj[v]) = 4
    /\ \E v \in Corners : v \notin DOMAIN adj

\* The inserts of one solid cell in the order of the code: up, down, left,
\* right.
CellEdgeSeq(tg, x, y, sz) ==
    IF ~is_solid(tg, x, y, sz) THEN <<>>
    ELSE (IF ~is_solid(tg, x, y - 1, sz)
            THEN <<make_edge(<<x, y>>, <<x + 1, y>>)>> ELSE <<>>)
         \o
         (IF ~is_solid(tg, x, y + 1, sz)
            THEN <<make_edge(<<x, y + 1>>, <<x + 1, y + 1>>)>> ELSE <<>>)
         \o
         (IF ~is_solid(tg, x - 1, y, sz)
            THEN <<make_edge(<<x, y>>, <<x, y + 1>>)>> ELSE <<>>)
         \o
         (IF ~is_solid(tg, x + 1, y, sz)
            THEN <<make_edge(<<x + 1, y>>, <<x + 1, y + 1>>)>> ELSE <<>>)

\* The inserts of the first n cells of the row-major scan (for y, for x).
RECURSIVE ScanOrder(_, _, _)
ScanOrder(tg, sz, n) ==
    IF n = 0 THEN <<>>
    ELSE ScanOrder(tg, sz, n - 1)
         \o CellEdgeSeq(tg, (n - 1) % sz[1], (n - 1) \div sz[1], sz)

\* The neighbour lists the scan order of the collection would give.
ScanAdj == AdjOfOrder(ScanOrder(tags, size, size[1] * size[2]))

\* C24: the neighbour order recorded in adj is the one given by the row-major
\* cell scan with the side order up, down, left, right, so that every run on
\* the same grid records the same lists.
C24_ScanOrder == pc = "select" => adj = ScanAdj

\* Number of edges of the original EdgeSet at the corner v.
Degree(v) == Cardinality({e \in edges0 : e[1] = v \/ e[2] = v})

\* Of the four cells around v exactly the two of one diagonal are solid.
Pinch(v) ==
    LET nw == Solid(<<v[1] - 1, v[2] - 1>>)
        ne == Solid(<<v[1], v[2] - 1>>)
        sw == Solid(<<v[1] - 1, v[2]>>)
        se == Solid(<<v[1], v[2]>>)
    IN  (nw /\ se /\ ~ne /\ ~sw) \/ (ne /\ sw /\ ~nw /\ ~se)

\* C25: in the boundary graph of the collected EdgeSet every grid corner has
\* degree 0, 2 or 4, and it has degree 4 exactly when it is a pinch corner.
C25_Degrees ==
    pc # "collect" =>
        \A v \in Corners :
            /\ Degree(v) \in {0, 2, 4}
            /\ (Degree(v) = 4) = Pinch(v)

C25_Witness ==
    /\ pc = "adj"
    /\ size = <<3, 2>>
    /\ \E v \in Corners : Degree(v) = 4 /\ Pinch(v)
    /\ \E v \in Corners : Degree(v) = 0
    /\ \E v \in Corners : Degree(v) = 2

\* --------------------------------------------- make_edge and the edge set
\* Inserts, finds and erases of one segment in a std::unordered_set<Edge>,
\* each with the endpoints given in either order.
GridPoints == (-QMargin .. MaxW + QMargin) \X (-QMargin .. MaxH + QMargin)

InitE ==
    /\ size = <<0, 0>>
    /\ tags = [c \in {} |-> "air"]
    /\ guard = Guard
    /\ pc = "edge_ops"
    /\ ends \in GridPoints \X GridPoints
    /\ arg = NoPoint /\ ret = FALSE /\ queried = {}
    /\ edges = {} /\ edges0 = {} /\ adj = EmptyAdj /\ loops = <<>>
    /\ start = NoPoint /\ cur = NoPoint /\ prev = NoPoint /\ poly = <<>>
    /\ steps = 0 /\ nwalk = 0
    /\ world = {} /\ layer_body = 0 /\ layer_bodies = <<>> /\ chains = <<>>
    /\ it = 0 /\ destroyed = <<>>

EdgeOpsPc == {"edge_ops", "edge_inserted", "edge_found", "edge_erased"}

\* the two orders in which the endpoints can be handed to make_edge
EndOrders == {ends, <<ends[2], ends[1]>>}

\* edges.insert(make_edge(p0, p1))
EdgeInsert ==
    /\ pc \in EdgeOpsPc
    /\ \E o \in EndOrders : edges' = edges \cup {make_edge(o[1], o[2])}
    /\ pc' = "edge_inserted"
    /\ UNCHANGED <<size, tags, guard, edges0, adj, loops, start, cur, prev, poly, steps, nwalk, aux, phys>>

\* edges.find(make_edge(p0, p1)) != edges.end()
EdgeFind ==
    /\ pc \in EdgeOpsPc
    /\ \E o \in EndOrders : ret' = (make_edge(o[1], o[2]) \in edges)
    /\ pc' = "edge_found"
    /\ UNCHANGED <<size, tags, guard, edges, edges0, adj, loops, start, cur, prev, poly, steps, nwalk, arg, queried, ends, phys>>

\* edges.erase(make_edge(p0, p1))
EdgeErase ==
    /\ pc \in EdgeOpsPc
    /\ \E o \in EndOrders : edges' = edges \ {make_edge(o[1], o[2])}
    /\ pc' = "edge_erased"
    /\ UNCHANGED <<size, tags, guard, edges0, adj, loops, start, cur, prev, poly, steps, nwalk, aux, phys>>

NextE == EdgeInsert \/ EdgeFind \/ EdgeErase

SpecEdge == InitE /\ [][NextE]_vars

\* C26: make_edge is symmetric and canonical: both endpoint orders give the
\* same edge, made of the two endpoints with the lexicographically (x, then
\* y) smaller one first; so the set never holds more than one entry for the
\* segment, whichever orders it was inserted with, an erase in either order
\* removes it, and a find in either order reports whether it is present.
C26_MakeEdge ==
    pc \in EdgeOpsPc =>
        LET p == ends[1]
            q == ends[2]
            e == make_edge(p, q)
        IN  /\ make_edge(q, p) = e
            /\ (e = <<p, q>> \/ e = <<q, p>>)
            /\ (e[1] = e[2] \/ Less(e[1], e[2]))
            /\ edges \subseteq {e}
            /\ Cardinality(edges) <= 1
            /\ pc = "edge_inserted" => edges = {e}
            /\ pc = "edge_erased" => edges = {}
            /\ pc = "edge_found" => (ret = (edges # {}))

\* The segment was inserted with its greater endpoint first and found.
C26_Witness ==
    /\ pc = "edge_found"
    /\ ends = <<<<1, 2>>, <<1, 1>>>>
    /\ edges = {<<<<1, 1>>, <<1, 2>>>>}
    /\ ret = TRUE

\* ------------------------------------------ the probe of one directed edge
\* loop_has_solid_on_right on the chain [a, b] of one unit edge of the grid,
\* on every layer up to MaxW x MaxH: its first edge a -> b is probed.
InitProbe ==
    /\ InitGrid
    /\ guard = Guard
    /\ pc = "probe"
    /\ ends \in {ab \in GridPoints \X GridPoints : IsUnit(ab[1], ab[2])}
    /\ arg = NoPoint /\ ret = FALSE /\ queried = {}
    /\ edges = {} /\ edges0 = {} /\ adj = EmptyAdj /\ loops = <<>>
    /\ start = NoPoint /\ cur = NoPoint /\ prev = NoPoint /\ poly = <<>>
    /\ steps = 0 /\ nwalk = 0
    /\ world = {} /\ layer_body = 0 /\ layer_bodies = <<>> /\ chains = <<>>
    /\ it = 0 /\ destroyed = <<>>

\* lines 2207-2261; arg records the cell (gx, gy) handed to is_solid
ProbeCall ==
    /\ pc = "probe"
    /\ arg' = ProbeCell(ends[1], ends[2])
    /\ ret' = loop_has_solid_on_right(<<ends[1], ends[2]>>, tags, size)
    /\ queried' = queried \cup is_solid_reads(arg'[1], arg'[2], size)
    /\ pc' = "probe_ret"
    /\ UNCHANGED <<size, tags, guard, edges, edges0, adj, loops, start, cur, prev, poly, steps, nwalk, ends, phys>>

SpecProbe == InitProbe /\ [][ProbeCall]_vars

\* C27: for a unit edge directed from corner a to corner b the probe cell is
\* the one of the two cells sharing the edge that lies on the right of travel
\* (+x from (x,y): (x,y); -x from (x+1,y): (x,y-1); +y from (x,y): (x-1,y);
\* -y from (x,y+1): (x,y)), the probe reports whether that cell is solid, and
\* for an edge of the boundary it reports solid for exactly one of the two
\* directions of travel.
C27_ProbeCell ==
    pc = "probe_ret" =>
        LET a == ends[1]
            b == ends[2]
        IN  /\ arg = (CASE b[1] = a[1] + 1 -> <<a[1], a[2]>>
                        [] b[1] = a[1] - 1 -> <<a[1] - 1, a[2] - 1>>
                        [] b[2] = a[2] + 1 -> <<a[1] - 1, a[2]>>
                        [] b[2] = a[2] - 1 -> <<a[1], a[2] - 1>>)
            /\ arg \in SideCells(make_edge(a, b))
            /\ ProbeCell(b, a) \in SideCells(make_edge(a, b)) \ {arg}
            /\ ret = Solid(arg)
            /\ make_edge(a, b) \in BoundarySides =>
                   (ret # is_solid(tags, ProbeCell(b, a)[1], ProbeCell(b, a)[2], size))

\* The edge (1,2) -> (1,1) of a boundary, travelled upwards: the probe cell is
\* (1,1), which is solid, and the cell (0,1) on the other side is not.
C27_Witness ==
    /\ pc = "probe_ret"
    /\ size = <<2, 2>>
    /\ ends = <<<<1, 2>>, <<1, 1>>>>
    /\ arg = <<1, 1>>
    /\ tags[<<1, 1>>] = "wall"
    /\ tags[<<0, 1>>] = "air"
    /\ ret = TRUE

NoPinch == \A v \in Corners : ~Pinch(v)

\* C28: on a grid without a pinch corner every stored loop is simple: no grid
\* corner occurs twice in a loop, whatever start edges and neighbour orders
\* the run has.
C28_SimpleLoops == NoPinch => \A l \in LoopSet : Simple(l)

\* A block of 2x2 solid cells: one loop of 8 different corners.
C28_Witness ==
    /\ pc = "done"
    /\ NoPinch
    /\ Len(loops) = 1
    /\ Len(loops[1]) = 8
    /\ Simple(loops[1])

\* C29: for the layer init creates exactly one static body and exactly one
\* chain per stored loop, all on that body; the chain of a loop has one point
\* per vertex of the loop, in the order of the resolved loop (the vertex in
\* pixels, converted to meters), and as many material entries as points.
C29_OneBodyChainPerLoop ==
    /\ pc \in {"collect", "adj", "select", "walk", "close", "done"} =>
            (world = {} /\ chains = <<>>)
    /\ pc \in {"chains", "returned"} =>
         /\ world = {layer_body}
         /\ destroyed = <<>>
         /\ Len(chains) = (IF pc = "returned" THEN Len(loops) ELSE it)
         /\ \A i \in 1 .. Len(chains) :
              /\ chains[i][1] = layer_body
              /\ Len(chains[i][2]) = Len(loops[i])
              /\ \A j \in 1 .. Len(loops[i]) :
                    chains[i][2][j] =
                        <<<<loops[i][j][1] * CellSize * Scale, MetersToPixels>>,
                          <<loops[i][j][2] * CellSize * Scale, MetersToPixels>>>>
              /\ Len(chains[i][3]) = Len(chains[i][2])

C29_Witness ==
    /\ pc = "returned"
    /\ Len(loops) = 2
    /\ Len(chains) = 2
    /\ Len(chains[1][2]) = 4
    /\ Len(chains[2][3]) = 4
    /\ world = {1}

\* C30: teardown destroys no body twice: init appends the handle of the layer
\* body once per stored loop, but each b2DestroyBody call of the destructor is
\* on a body that is valid at that moment, and no id is passed to it twice.
C30_NoDoubleDestroy ==
    [][/\ destroyed' # destroyed =>
            /\ Len(destroyed') = Len(destroyed) + 1
            /\ destroyed'[Len(destroyed')] \in world
            /\ destroyed'[Len(destroyed')] \notin world'
            /\ destroyed'[Len(destroyed')] \notin Range(destroyed)
       /\ Cardinality(Range(destroyed')) = Len(destroyed')
       /\ Range(destroyed') \cap world' = {}]_vars

\* The handle was recorded twice (two loops) and the body destroyed once.
C30_Witness ==
    /\ pc = "gone"
    /\ Len(layer_bodies) = 2
    /\ layer_bodies[1] = layer_bodies[2]
    /\ destroyed = <<layer_bodies[1]>>
    /\ world = {}

====
